---- MODULE Spec2Model ----
(***************************************************************************)
(* Model of the guild-rs role engine and of its balance providers.         *)
(*                                                                         *)
(*   Role::check_batch          src/engine/src/lib.rs                      *)
(*   Requirement::check_batch   src/requirements/src/requirement.rs        *)
(*   balance resolver           src/providers/src/evm/jsonrpc/contract     *)
(*   EvmProvider                src/plugins/evm_balance/src/balance/mod.rs *)
(*   BalancyProvider            src/providers/src/evm/balancy/mod.rs       *)
(*                                                                         *)
(* Sequences are 1-based: the requirement at position i of the code is the *)
(* element i + 1 of role.requirements, and the user at position i is       *)
(* users[i + 1].  The terminal mapping keeps the code's 0-based keys.      *)
(***************************************************************************)
EXTENDS Integers, Sequences, FiniteSets, TLC

\* ------------------------------------------------------------- bounds
\* MaxSize bounds one call of Role::check_batch: its users, their identities
\* and the role's requirements, counted together.
MaxSize == 5
MaxUserId == 2
MaxIdentities == 2
MaxBatch == 3

\* ------------------------------------------------------------- values
IdentityTypes == {"evm_address", "discord"}
UserIds == 1..MaxUserId
Identities == 1..MaxIdentities

\* Result<bool, RequirementError> of one Requirement::check.
CheckOk(b) == [ok |-> TRUE, value |-> b, error |-> "none"]
CheckErr == [ok |-> FALSE, value |-> FALSE, error |-> "RequirementError"]
CheckResults == {CheckOk(TRUE), CheckOk(FALSE), CheckErr}

\* Option<T>
None == [some |-> FALSE, value |-> <<>>]
Some(v) == [some |-> TRUE, value |-> v]
UnwrapOr(opt, default) == IF opt.some THEN opt.value ELSE default

\* The identity lists a user may hold under one identity type: never empty,
\* an identity type without identities has no key in the map.
IdentityLists == {[k \in 1..n |-> k] : n \in 1..MaxIdentities}

IdentityMaps ==
    UNION {[D -> IdentityLists] : D \in SUBSET IdentityTypes}

Users == [id : UserIds, identities : IdentityMaps]

RECURSIVE SeqsUpTo(_, _)
SeqsUpTo(S, n) ==
    IF n = 0 THEN {<<>>}
    ELSE LET shorter == SeqsUpTo(S, n - 1)
         IN shorter \cup {Append(s, x) : s \in {t \in shorter : Len(t) = n - 1}, x \in S}

Requirements == [identity_id : IdentityTypes]

\* The logic string, as the sequence of its whitespace-separated tokens.
Logics ==
    { <<"0", "AND", "1", "AND", "2">>,
      <<"0", "OR", "1">>,
      <<"0", "AND">> }

NoFilter == [some |-> FALSE, deny_list |-> FALSE, list |-> {}]
Filters ==
    {NoFilter} \cup [some : {TRUE}, deny_list : BOOLEAN, list : SUBSET Identities]

VARIABLES
    role,               \* self: logic, requirements, filter
    users,              \* the users argument
    pc,                 \* position of Role::check_batch
    bpc,                \* position of each requirement's async block
    identities_with_ids,\* per requirement: the flattened (user id, identity) pairs
    checked,            \* per requirement: what each identity's check returned
    accesses_per_req,   \* per requirement: the row the async block returned
    rotated,            \* per user: the row of per-requirement accesses
    tree,               \* the parsed logic tree
    res,                \* the per-user booleans
    result,             \* "running", "Ok", "Err", "panic"
    batch_calls,        \* per requirement: invocations of Requirement::check_batch
    round_trips,        \* upstream requests sent during the evaluation
    rb_identities,      \* Requirement::check_batch: the identities argument
    rb_elems,           \* join_all: one slot per future
    rb_log,             \* completions of the per-identity checks, in time order
    rb_result,          \* what Requirement::check_batch returned
    rs_query,           \* balance resolver: the function called and its arguments
    rs_chain,           \* what the chain holds for the queried token
    rs_result,          \* what the resolver call returned
    rs_requests,        \* JSON-RPC requests the resolver call sent
    ag_calls,           \* multicall::aggregate: the calls argument
    ag_result,          \* what aggregate returned
    bl_query,           \* BalancyProvider: the function called and its arguments
    bl_service,         \* what the Balancy service holds for each address
    bl_result,          \* what the BalancyProvider call returned
    bl_requests,        \* HTTP requests the BalancyProvider call sent
    ra_relation,        \* Relation::assert: self
    ra_x,               \* Relation::assert: the candidate
    ra_result,          \* what assert returned
    hs_hasher,          \* the value DefaultHasher gives each string
    hs_log,             \* the calls of hash_string_to_f64 so far, with their values
    ck_relation,        \* Requirement::check: self.relation
    ck_reply,           \* the response to the request and the value at the path
    ck_hash,            \* hash_string_to_f64 of each text the call may hash
    ck_result,          \* what Requirement::check returned
    bc_query,           \* get_erc1155_balance_batch: token id and holders
    bc_call_data,       \* the calldata it builds
    bc_result           \* what it returns

engine_vars ==
    <<role, users, pc, bpc, identities_with_ids, checked, accesses_per_req,
      rotated, tree, res, result, batch_calls, round_trips>>
rb_vars == <<rb_identities, rb_elems, rb_log, rb_result>>
rs_vars == <<rs_query, rs_chain, rs_result, rs_requests>>
ag_vars == <<ag_calls, ag_result>>
bl_vars == <<bl_query, bl_service, bl_result, bl_requests>>
px_vars == <<rs_vars, ag_vars, bl_vars>>
ra_vars == <<ra_relation, ra_x, ra_result>>
hs_vars == <<hs_hasher, hs_log>>
ck_vars == <<ck_relation, ck_reply, ck_hash, ck_result>>
bc_vars == <<bc_query, bc_call_data, bc_result>>
pf_vars == <<ra_vars, hs_vars, ck_vars, bc_vars>>
vars == <<engine_vars, rb_vars, px_vars, pf_vars>>


\* ------------------------------------------------------------- inputs
Reqs == UnwrapOr(role.requirements, <<>>)
NumReqs == Len(Reqs)
NumUsers == Len(users)

\* ------------------------------------------- Requirement::check_batch
\* As JoinAllOutput, but the outputs in the order the futures completed.
JoinAllOutputByCompletion(elems) == [j \in 1..Len(elems) |-> rb_log[j].output]

\* join_all hands back the outputs by the position of their future.
JoinAllOutput(elems) == [j \in 1..Len(elems) |-> elems[j].output]

\* Iterator<Result<bool, E>>::collect::<Result<Vec<bool>, E>>(): the first
\* Err in iteration order, else every value in order.
Collect(results) ==
    LET bad == {j \in 1..Len(results) : ~results[j].ok}
    IN IF bad = {}
       THEN [ok |-> TRUE, value |-> [j \in 1..Len(results) |-> results[j].value],
             error |-> "none"]
       ELSE [ok |-> FALSE, value |-> <<>>,
             error |-> results[CHOOSE j \in bad : \A k \in bad : j <= k].error]

Future == [done |-> FALSE, output |-> CheckErr]
Done(v) == [done |-> TRUE, output |-> v]

\* ------------------------------------------------- Role::check_batch
\* user.identities.get(&req.identity_id).unwrap_or(&vec![])
IdentitiesOf(user, req) ==
    IF req.identity_id \in DOMAIN user.identities
    THEN user.identities[req.identity_id]
    ELSE <<>>

\* users.iter().flat_map(|user| ... (user.id, identity) ...).collect()
RECURSIVE FlatMap(_, _)
FlatMap(us, req) ==
    IF us = <<>> THEN <<>>
    ELSE LET ids == IdentitiesOf(Head(us), req)
         IN [k \in 1..Len(ids) |-> <<Head(us).id, ids[k]>>] \o FlatMap(Tail(us), req)

Min(a, b) == IF a <= b THEN a ELSE b

\* As IdAccesses, but zipping the accesses in reverse order.
IdAccessesReversed(pairs, accesses) ==
    [k \in 1..Min(Len(pairs), Len(accesses)) |->
        <<pairs[k][1], accesses[Len(accesses) + 1 - k]>>]

\* identities_with_ids.iter().zip(accesses.iter()).map(...).collect()
IdAccesses(pairs, accesses) ==
    [k \in 1..Min(Len(pairs), Len(accesses)) |-> <<pairs[k][1], accesses[k]>>]

\* As Regroup, but reducing with && instead of ||.
RegroupAll(us, id_accesses) ==
    [u \in 1..Len(us) |->
        /\ \E k \in 1..Len(id_accesses) : id_accesses[k][1] = us[u].id
        /\ \A k \in 1..Len(id_accesses) :
              id_accesses[k][1] = us[u].id => id_accesses[k][2]]

\* users.iter().map(|user| filter_map(by user.id).reduce(||).unwrap_or_default())
Regroup(us, id_accesses) ==
    [u \in 1..Len(us) |->
        \E k \in 1..Len(id_accesses) :
            id_accesses[k][1] = us[u].id /\ id_accesses[k][2]]

\* As JoinReady, but returning with the first future that is done.
JoinReadyAny(states) == \E r \in 1..Len(states) : states[r] = "done"

\* join_all(...).await returns once every future has produced its output.
JoinReady(states) == \A r \in 1..Len(states) : states[r] = "done"

\* As Rotate, but reading the rows from their end.
RotateReversed(n, rows) == [i \in 1..n |-> [r \in 1..Len(rows) |-> rows[r][n + 1 - i]]]

\* (0..users.len()).map(|i| accesses_per_req.iter().map(|row| row[i]))
Rotate(n, rows) == [i \in 1..n |-> [r \in 1..Len(rows) |-> rows[r][i]]]

\* As Terminals, but keyed from 1.
TerminalsFromOne(accesses) == [i \in 1..Len(accesses) |-> accesses[i]]

\* accesses.iter().enumerate().map(|(i, &a)| (i as u32, a)).collect()
Terminals(accesses) == [i \in 0..(Len(accesses) - 1) |-> accesses[i + 1]]

\* ------------------------------------------------ requiem::LogicTree
TerminalTokens == {"0", "1", "2", "3"}
TerminalId(tok) ==
    CASE tok = "0" -> 0 [] tok = "1" -> 1 [] tok = "2" -> 2 [] tok = "3" -> 3

GateTokens == {"AND", "OR"}
ParseError == [kind |-> "error"]
NoTree == [kind |-> "none"]
Terminal(id) == [kind |-> "terminal", id |-> id]
Gate(op, left, right) == [kind |-> "gate", op |-> op, left |-> left, right |-> right]

RECURSIVE ParseRest(_, _)
ParseRest(left, toks) ==
    IF toks = <<>> THEN left
    ELSE IF Len(toks) >= 2 /\ toks[1] \in GateTokens /\ toks[2] \in TerminalTokens
         THEN ParseRest(Gate(toks[1], left, Terminal(TerminalId(toks[2]))),
                        SubSeq(toks, 3, Len(toks)))
         ELSE ParseError

\* LogicTree::from_str
Parse(toks) ==
    IF toks # <<>> /\ toks[1] \in TerminalTokens
    THEN ParseRest(Terminal(TerminalId(toks[1])), Tail(toks))
    ELSE ParseError

EvalOk(b) == [ok |-> TRUE, value |-> b]
EvalErr == [ok |-> FALSE, value |-> FALSE]

\* LogicTree::evaluate: a terminal without an entry in the mapping is an error,
\* and the error of an operand is the error of the gate.
RECURSIVE Evaluate(_, _)
Evaluate(t, terminals) ==
    IF t.kind = "terminal"
    THEN IF t.id \in DOMAIN terminals THEN EvalOk(terminals[t.id]) ELSE EvalErr
    ELSE LET a == Evaluate(t.left, terminals)
             b == Evaluate(t.right, terminals)
         IN IF ~a.ok \/ ~b.ok THEN EvalErr
            ELSE IF t.op = "AND" THEN EvalOk(a.value /\ b.value)
            ELSE EvalOk(a.value \/ b.value)

RECURSIVE TerminalsOf(_)
TerminalsOf(t) ==
    IF t.kind = "terminal" THEN {t.id}
    ELSE TerminalsOf(t.left) \cup TerminalsOf(t.right)

\* tree.evaluate(&terminals).unwrap_or(false)
EvaluateOrDefault(t, terminals) ==
    LET e == Evaluate(t, terminals) IN IF e.ok THEN e.value ELSE FALSE

\* ------------------------------------------------------------ filter
\* AllowList::check_for_many: some address of the user is on the list; the
\* deny flag inverts the match.
Listed(user, filter) ==
    \E k \in 1..Len(IdentitiesOf(user, [identity_id |-> "evm_address"])) :
        IdentitiesOf(user, [identity_id |-> "evm_address"])[k] \in filter.list

FilterAdmits(user, filter) ==
    IF filter.deny_list THEN ~Listed(user, filter) ELSE Listed(user, filter)

\* -------------------------------------------------------------- Init
RECURSIVE SumLens(_)
SumLens(lists) ==
    IF lists = <<>> THEN 0 ELSE Len(Head(lists)) + SumLens(Tail(lists))

\* The identities the users hold, over all identity types.
TotalIdentities(us) ==
    SumLens([u \in 1..Len(us) |->
                FlatMap(<<us[u]>>, [identity_id |-> "evm_address"])
                    \o FlatMap(<<us[u]>>, [identity_id |-> "discord"])])

\* A list of users weighs its users and their identities.
Weight(us) == Len(us) + TotalIdentities(us)

RECURSIVE UserListsWithin(_)
UserListsWithin(budget) ==
    {<<>>} \cup
    UNION {{<<u>> \o rest : rest \in UserListsWithin(budget - Weight(<<u>>))} :
              u \in {v \in Users : Weight(<<v>>) <= budget}}

UserLists == UserListsWithin(MaxSize)

RequirementOptions(budget) ==
    {None} \cup {Some(s) : s \in SeqsUpTo(Requirements, budget)}

RoleSet(filters, budget) ==
    [logic : Logics, requirements : RequirementOptions(budget), filter : filters]

IdleBatch ==
    /\ rb_identities = <<>>
    /\ rb_elems = <<>>
    /\ rb_log = <<>>
    /\ rb_result = [state |-> "idle", ok |-> FALSE, value |-> <<>>, error |-> "none"]

\* No call of a balance provider is in progress.
IdleResolver ==
    /\ rs_query = "idle"
    /\ rs_chain = "idle"
    /\ rs_result = "idle"
    /\ rs_requests = 0

IdleAggregate ==
    /\ ag_calls = <<>>
    /\ ag_result = "idle"

IdleBalancy ==
    /\ bl_query = "idle"
    /\ bl_service = "idle"
    /\ bl_result = "idle"
    /\ bl_requests = 0

IdleProviders == IdleResolver /\ IdleAggregate /\ IdleBalancy

\* No call of Relation::assert, hash_string_to_f64, Requirement::check or of
\* the batch calldata builder is in progress.
IdleRelation ==
    /\ ra_relation = "idle"
    /\ ra_x = 0
    /\ ra_result = "idle"

IdleHash ==
    /\ hs_hasher = "idle"
    /\ hs_log = <<>>

IdleCheck ==
    /\ ck_relation = "idle"
    /\ ck_reply = "idle"
    /\ ck_hash = "idle"
    /\ ck_result = "idle"

IdleBatchCall ==
    /\ bc_query = "idle"
    /\ bc_call_data = <<>>
    /\ bc_result = "idle"

IdlePure == IdleRelation /\ IdleHash /\ IdleCheck /\ IdleBatchCall

\* A call of Role::check_batch on a role with one of the given filters.
InitEngine(filters) ==
    /\ users \in UserLists
    /\ role \in RoleSet(filters, MaxSize - Weight(users))
    /\ pc = "join"
    /\ bpc = [r \in 1..NumReqs |-> "created"]
    /\ identities_with_ids = [r \in 1..NumReqs |-> <<>>]
    /\ checked = [r \in 1..NumReqs |-> <<>>]
    /\ accesses_per_req = [r \in 1..NumReqs |-> <<>>]
    /\ rotated = <<>>
    /\ tree = NoTree
    /\ res = <<>>
    /\ result = "running"
    /\ batch_calls = [r \in 1..NumReqs |-> 0]
    /\ round_trips = 0
    /\ IdleBatch
    /\ IdleProviders
    /\ IdlePure

Init == InitEngine({NoFilter})

\* ----------------------------------------------------------- actions
\* The first poll of the async block of requirement r: flatten the identities
\* and call req.check_batch.  join_all polls its futures in order, so the blocks
\* start in order; with no identity to check the batch check is ready at once
\* and the block runs to its end.  Requirement::check_batch starts one check
\* per identity, and each check sends its own request upstream.
Start(r) ==
    /\ pc = "join"
    /\ bpc[r] = "created"
    /\ \A q \in 1..(r - 1) : bpc[q] # "created"
    /\ LET pairs == FlatMap(users, Reqs[r])
       IN /\ identities_with_ids' = [identities_with_ids EXCEPT ![r] = pairs]
          /\ batch_calls' = [batch_calls EXCEPT ![r] = @ + 1]
          /\ round_trips' = round_trips + Len(pairs)
          /\ IF pairs = <<>>
             THEN /\ bpc' = [bpc EXCEPT ![r] = "done"]
                  /\ accesses_per_req' =
                        [accesses_per_req EXCEPT
                            ![r] = Regroup(users, IdAccesses(pairs, Collect(<<>>).value))]
             ELSE /\ bpc' = [bpc EXCEPT ![r] = "awaiting"]
                  /\ UNCHANGED accesses_per_req
    /\ UNCHANGED <<role, users, pc, checked, rotated, tree, res, result, rb_vars, px_vars, pf_vars>>

\* req.check_batch(...).await of requirement r returns: every identity's check
\* has produced its result.  Ok: the block re-groups the accesses per user and
\* ends.  Err: the unwrap panics and the evaluation is aborted.
Complete(r) ==
    /\ pc = "join"
    /\ bpc[r] = "awaiting"
    /\ \A q \in 1..NumReqs : bpc[q] # "created"
    /\ \E outs \in [1..Len(identities_with_ids[r]) -> CheckResults] :
          LET accesses == Collect(outs)
          IN /\ IF accesses.ok
                THEN /\ bpc' = [bpc EXCEPT ![r] = "done"]
                     /\ checked' = [checked EXCEPT ![r] = outs]
                     /\ accesses_per_req' =
                           [accesses_per_req EXCEPT
                               ![r] = Regroup(users,
                                         IdAccesses(identities_with_ids[r], accesses.value))]
                     /\ UNCHANGED <<pc, result>>
                ELSE /\ bpc' = [bpc EXCEPT ![r] = "panicked"]
                     /\ pc' = "aborted"
                     /\ result' = "panic"
                     /\ UNCHANGED <<accesses_per_req, checked>>
    /\ UNCHANGED <<role, users, identities_with_ids, rotated, tree, res,
                   batch_calls, round_trips, rb_vars, px_vars, pf_vars>>

\* join_all(...).await returns the rows.
Join ==
    /\ pc = "join"
    /\ JoinReady(bpc)
    /\ pc' = "rotate"
    /\ UNCHANGED <<role, users, bpc, identities_with_ids, checked, accesses_per_req,
                   rotated, tree, res, result, batch_calls, round_trips, rb_vars, px_vars, pf_vars>>

RotateRows ==
    /\ pc = "rotate"
    /\ rotated' = Rotate(NumUsers, accesses_per_req)
    /\ pc' = "parse"
    /\ UNCHANGED <<role, users, bpc, identities_with_ids, checked, accesses_per_req,
                   tree, res, result, batch_calls, round_trips, rb_vars, px_vars, pf_vars>>

\* LogicTree::from_str(&self.logic)?
ParseLogic ==
    /\ pc = "parse"
    /\ tree' = Parse(role.logic)
    /\ IF Parse(role.logic).kind = "error"
       THEN pc' = "done" /\ result' = "Err"
       ELSE pc' = "evaluate" /\ UNCHANGED result
    /\ UNCHANGED <<role, users, bpc, identities_with_ids, checked, accesses_per_req,
                   rotated, res, batch_calls, round_trips, rb_vars, px_vars, pf_vars>>

EvaluateUsers ==
    /\ pc = "evaluate"
    /\ res' = [u \in 1..Len(rotated) |-> EvaluateOrDefault(tree, Terminals(rotated[u]))]
    /\ result' = "Ok"
    /\ pc' = "done"
    /\ UNCHANGED <<role, users, bpc, identities_with_ids, checked, accesses_per_req,
                   rotated, tree, batch_calls, round_trips, rb_vars, px_vars, pf_vars>>

Next ==
    \/ \E r \in 1..NumReqs : Start(r)
    \/ \E r \in 1..NumReqs : Complete(r)
    \/ Join
    \/ RotateRows
    \/ ParseLogic
    \/ EvaluateUsers

Spec == Init /\ [][Next]_vars

\* Roles that carry an allow or deny list.
InitFilter == InitEngine(Filters \ {NoFilter})
SpecFilter == InitFilter /\ [][Next]_vars

\* ------------------------------------- Requirement::check_batch alone
IdleEngine ==
    /\ users = <<>>
    /\ role = [logic |-> <<"0">>, requirements |-> None, filter |-> NoFilter]
    /\ pc = "idle"
    /\ bpc = <<>>
    /\ identities_with_ids = <<>>
    /\ checked = <<>>
    /\ accesses_per_req = <<>>
    /\ rotated = <<>>
    /\ tree = NoTree
    /\ res = <<>>
    /\ result = "idle"
    /\ batch_calls = <<>>
    /\ round_trips = 0

\* A call of Requirement::check_batch: join_all holds one future per identity.
InitReq ==
    /\ IdleEngine
    /\ rb_identities \in SeqsUpTo(Identities, MaxBatch)
    /\ rb_elems = [j \in 1..Len(rb_identities) |-> Future]
    /\ rb_log = <<>>
    /\ rb_result = [state |-> "pending", ok |-> FALSE, value |-> <<>>, error |-> "none"]
    /\ IdleProviders
    /\ IdlePure

\* self.check(client, identity) of the identity at position j produces its result.
CheckCompletes(j) ==
    /\ rb_result.state = "pending"
    /\ ~rb_elems[j].done
    /\ \E v \in CheckResults :
          /\ rb_elems' = [rb_elems EXCEPT ![j] = Done(v)]
          /\ rb_log' = Append(rb_log, [index |-> j, output |-> v])
    /\ UNCHANGED <<rb_identities, rb_result, engine_vars, px_vars, pf_vars>>

\* join_all(...).await.into_iter().collect()
BatchReturns ==
    /\ rb_result.state = "pending"
    /\ \A j \in 1..Len(rb_elems) : rb_elems[j].done
    /\ LET collected == Collect(JoinAllOutput(rb_elems))
       IN rb_result' = [state |-> "returned", ok |-> collected.ok,
                        value |-> collected.value, error |-> collected.error]
    /\ UNCHANGED <<rb_identities, rb_elems, rb_log, engine_vars, px_vars, pf_vars>>

NextReq ==
    \/ \E j \in 1..Len(rb_elems) : CheckCompletes(j)
    \/ BatchReturns

SpecReq == InitReq /\ [][NextReq]_vars

\* ============================================================ claims
Returned == result \in {"Ok", "Err"}
Ended == pc \in {"done", "aborted"}

\* The identities of user u that requirement r checks start after this many
\* entries of the flattened list.
Offset(u, r) == SumLens([v \in 1..(u - 1) |-> IdentitiesOf(users[v], Reqs[r])])
OwnChecks(u, r) ==
    {Offset(u, r) + k : k \in 1..Len(IdentitiesOf(users[u], Reqs[r]))}

\* Some identity of user u, of the identity type of requirement r, passed.
OwnPass(u, r) == \E k \in OwnChecks(u, r) : checked[r][k].ok /\ checked[r][k].value

\* C1 (as claimed): the result of a user for requirement r is true iff one of
\* that user's own identities of the requirement's identity type passed the
\* check, and false for a user without such an identity.
C1_OwnIdentitiesDecide ==
    \A r \in 1..NumReqs :
        bpc[r] = "done" =>
            \A u \in 1..NumUsers : accesses_per_req[r][u] = OwnPass(u, r)

\* C1 (amended): the result of a user for requirement r is true iff an identity
\* of the requirement's identity type passed that belongs to an input user with
\* the same id; a user with no such identity among the users of its id gets
\* false, and a requirement with no identity to check raises no error.
C1_IdentitiesOfSameIdDecide ==
    \A r \in 1..NumReqs :
        /\ bpc[r] = "done" =>
              /\ Len(accesses_per_req[r]) = NumUsers
              /\ \A u \in 1..NumUsers :
                    accesses_per_req[r][u] =
                        \E v \in 1..NumUsers : users[v].id = users[u].id /\ OwnPass(v, r)
        /\ bpc[r] = "panicked" => \E u \in 1..NumUsers : OwnChecks(u, r) # {}

\* One user passes with one passing and one failing identity, another user has
\* no identity of the type and fails.
C1_Witness ==
    \E r \in 1..NumReqs : \E u, v \in 1..NumUsers :
        /\ bpc[r] = "done"
        /\ \E j, k \in OwnChecks(u, r) : checked[r][j].value /\ ~checked[r][k].value
        /\ accesses_per_req[r][u]
        /\ OwnChecks(v, r) = {}
        /\ ~accesses_per_req[r][v]

\* The user ids of the batch are pairwise distinct.
DistinctIds == \A u, v \in 1..NumUsers : users[u].id = users[v].id => u = v

\* C25: per-user isolation in Role.check_batch: when the user ids of the batch
\* are pairwise distinct, a user's result for a requirement is determined only
\* by the check results of that user's own identities; results are re-grouped
\* by user id, so input users that share an id all receive the OR over the
\* identities of every user with that id.
C25_PerUserIsolation ==
    \A r \in 1..NumReqs :
        bpc[r] = "done" =>
            /\ DistinctIds => \A u \in 1..NumUsers : accesses_per_req[r][u] = OwnPass(u, r)
            /\ \A u, v \in 1..NumUsers :
                  users[u].id = users[v].id =>
                      /\ accesses_per_req[r][u] = accesses_per_req[r][v]
                      /\ accesses_per_req[r][u]
                            <=> \E w \in 1..NumUsers :
                                   users[w].id = users[u].id /\ OwnPass(w, r)

\* Two users of different ids, each with an identity of the type: the checks
\* of the first pass none, a check of the second passes, and only the second
\* user is admitted.
C25_Witness ==
    \E r \in 1..NumReqs :
        /\ bpc[r] = "done"
        /\ NumUsers = 2
        /\ DistinctIds
        /\ OwnChecks(1, r) # {} /\ OwnChecks(2, r) # {}
        /\ ~OwnPass(1, r) /\ OwnPass(2, r)
        /\ ~accesses_per_req[r][1] /\ accesses_per_req[r][2]

\* What the logic tree yields for user u on the rows the requirements returned.
FinalOf(u) ==
    EvaluateOrDefault(Parse(role.logic),
                      [i \in 0..(NumReqs - 1) |-> accesses_per_req[i + 1][u]])

\* C2: an Ok result holds one boolean per input user, the i-th being the result
\* of the i-th input user, for any number of users and of requirements.
C2_OnePerUserInOrder ==
    result = "Ok" =>
        /\ Len(res) = NumUsers
        /\ \A u \in 1..NumUsers : res[u] = FinalOf(u)

\* Two users with different results.
C2_Witness ==
    /\ result = "Ok"
    /\ NumUsers = 2
    /\ res[1] /\ ~res[2]

\* C3: every call ends by returning Ok with a full per-user vector or Err with a
\* typed error; no outcome of a requirement's batch check aborts it.
C3_ReturnsOkOrTypedError ==
    /\ result # "panic"
    /\ Ended => \/ result = "Ok" /\ Len(res) = NumUsers
                \/ result = "Err"

\* C4: each requirement's batch check is invoked exactly once and the upstream
\* round trips number at most the requirements.
C4_RoundTripsBoundedByRequirements ==
    /\ \A r \in 1..NumReqs : batch_calls[r] <= 1
    /\ Returned => \A r \in 1..NumReqs : batch_calls[r] = 1
    /\ round_trips <= NumReqs

C6_BatchPreservesOrder ==
    (rb_result.state = "returned" /\ rb_result.ok) =>
        /\ Len(rb_result.value) = Len(rb_identities)
        /\ \A j \in 1..Len(rb_identities) :
              \E n \in 1..Len(rb_log) :
                  /\ rb_log[n].index = j
                  /\ rb_log[n].output.value = rb_result.value[j]

\* The checks completed out of order and their results differ.
C6_Witness ==
    /\ rb_result.state = "returned"
    /\ rb_result.ok
    /\ Len(rb_identities) >= 2
    /\ rb_log[1].index = 2
    /\ rb_result.value[1] # rb_result.value[2]

\* The logic parses and names a requirement position the role does not have.
AbsentIndex ==
    /\ Parse(role.logic).kind # "error"
    /\ \E id \in TerminalsOf(Parse(role.logic)) : id >= NumReqs

\* C7: when the logic references an index absent from the terminal mapping,
\* every user's final result is false and the call returns Ok.
C7_AbsentIndexIsFalse ==
    (Ended /\ AbsentIndex) =>
        /\ result = "Ok"
        /\ \A u \in 1..NumUsers : res[u] = FALSE

\* C8: with a syntactically invalid logic string the call returns the parse
\* error and no boolean for any user.
C8_InvalidLogicIsParseError ==
    (Ended /\ Parse(role.logic).kind = "error") =>
        /\ result = "Err"
        /\ res = <<>>

\* C9: with the logic "0 AND 1 AND 2" and three requirements, a user's final
\* result is true iff the user's result is true for requirements 0, 1 and 2.
C9_AndOfThree ==
    (result = "Ok" /\ role.logic = <<"0", "AND", "1", "AND", "2">> /\ NumReqs = 3) =>
        \A u \in 1..NumUsers :
            res[u] = (accesses_per_req[1][u] /\ accesses_per_req[2][u]
                        /\ accesses_per_req[3][u])

\* A user passes all three requirements.
C9_Witness ==
    /\ result = "Ok"
    /\ role.logic = <<"0", "AND", "1", "AND", "2">>
    /\ NumReqs = 3
    /\ \E u \in 1..NumUsers : res[u]

\* C10: the role's filter is applied: a user the filter does not admit (no
\* listed address under an allow list, a listed address under a deny list)
\* evaluates to false; a user it admits who satisfies every requirement of a
\* logic over the role's own requirements evaluates to true.
C10_FilterApplied ==
    (result = "Ok" /\ role.filter.some) =>
        \A u \in 1..NumUsers :
            /\ ~FilterAdmits(users[u], role.filter) => ~res[u]
            /\ (FilterAdmits(users[u], role.filter) /\ ~AbsentIndex
                  /\ \A r \in 1..NumReqs : accesses_per_req[r][u]) => res[u]


\* ================================================== balance resolver
\* The JSON-RPC balance functions of
\*   src/providers/src/evm/jsonrpc/contract/mod.rs
\* and the dispatcher EvmProvider::get_balance_batch of
\*   src/plugins/evm_balance/src/balance/mod.rs
\* The chain is one that has a provider configured.
MaxHolders == 2
MaxRaw == 2

Addresses == {"user_1", "user_2"}
\* An account that is none of the queried addresses.
OtherAccount == "other"

\* U256 values hi * 2^128 + lo; lo stays far below 2^128 in this model.
U256Of(n) == [hi |-> 0, lo |-> n]
U256Big == [hi |-> 1, lo |-> 0]
U256s == {U256Of(n) : n \in 0..MaxRaw} \cup {U256Big}

\* U256::as_u128 panics unless the value fits in 128 bits.
FitsU128(v) == v.hi = 0

\* 10_u128.pow(d) overflows from d = 39 on.
U128_MAX_POW10 == 38
\* ETH_BALANCE_DIVIDER = 10^18
ETH_DECIMALS == 18
\* What a token's decimals() may report (a uint8).
Decimals == {0, 6, 18, 39}

\* Option<U256> of TokenType::NonFungible and TokenType::Special
NoTokenId == [some |-> FALSE, value |-> 0]
TokenId(i) == [some |-> TRUE, value |-> i]

TokenTypes ==
    [kind : {"Native", "Fungible"}, id : {NoTokenId}]
      \cup [kind : {"NonFungible", "Special"}, id : {NoTokenId, TokenId(1)}]

\* A Scalar (f64) holding (hi * 2^128 + lo) / 10^exp.  exp = -1 stands for the
\* quotient by a divider that wrapped around.
Scalar(v, exp) == [hi |-> v.hi, lo |-> v.lo, exp |-> exp]

\* The same Scalar with the common factors of ten removed, so that two Scalars
\* are the same number exactly when their normal forms are equal.
RECURSIVE Normal(_)
Normal(x) ==
    IF x.exp <= 0 \/ x.hi # 0 THEN x
    ELSE IF x.lo = 0 THEN [x EXCEPT !.exp = 0]
    ELSE IF x.lo % 10 = 0 THEN Normal([x EXCEPT !.lo = x.lo \div 10, !.exp = x.exp - 1])
    ELSE x

\* The text of one 32-byte word of an RPC result: 64 hex digits holding a
\* value, or text that U256::from_str rejects.
Word(v) == [valid |-> TRUE, value |-> v]
BadWord == [valid |-> FALSE, value |-> U256Of(0)]

\* Result<String, RpcError> of call_contract: the node's result text, or a
\* transport or JSON failure.
Sent(text) == [ok |-> TRUE, text |-> text]
Failed(text) == [ok |-> FALSE, text |-> text]

\* What a resolver function returns: Ok(values), Err(RpcError) or a panic,
\* together with the number of requests it sent.
RsOk(values, n) == [state |-> "Ok", value |-> values, error |-> "none", requests |-> n]
RsErr(e, n) == [state |-> "Err", value |-> <<>>, error |-> e, requests |-> n]
RsPanic(n) == [state |-> "panic", value |-> <<>>, error |-> "none", requests |-> n]

\* Overflow checks are on in a debug build and off in a release build.
Builds == {"debug", "release"}

\* The result text of ownerOf(id): "0x" and one word whose low 20 bytes are the
\* owner, or the empty result "0x" of a call that returned no data.
OwnerText(a) == [len |-> 66, tail |-> a]
EmptyText == [len |-> 2, tail |-> ""]

\* U256::as_u32 panics unless the value fits in 32 bits.
FitsU32(v) == v.hi = 0

\* rpc_error!(U256::from_str(&text))
FromStr(text) ==
    IF text.valid THEN [ok |-> TRUE, value |-> text.value, error |-> "none"]
    ELSE [ok |-> FALSE, value |-> U256Of(0), error |-> "Other"]

\* get_erc20_decimals, given what call_contract returned
GetErc20Decimals(reply) ==
    IF reply.ok THEN FromStr(reply.text)
    ELSE [ok |-> FALSE, value |-> U256Of(0), error |-> "Reqwest"]

\* get_erc20_balance, given what the two call_contract calls returned.  The
\* second call is made only when the first returned Ok.
GetErc20Balance(build, balance, decimals_res) ==
    IF ~balance.ok THEN RsErr("Reqwest", 1)
    ELSE LET decimals == GetErc20Decimals(decimals_res)
         IN IF ~decimals.ok THEN RsErr(decimals.error, 2)
            ELSE IF ~FitsU32(decimals.value) THEN RsPanic(2)
            ELSE IF decimals.value.lo > U128_MAX_POW10 /\ build = "debug"
                 THEN RsPanic(2)
            ELSE IF ~FromStr(balance.text).ok THEN RsErr("Other", 2)
            ELSE IF ~FitsU128(FromStr(balance.text).value) THEN RsPanic(2)
            ELSE RsOk(<<Scalar(FromStr(balance.text).value,
                               IF decimals.value.lo > U128_MAX_POW10
                               THEN -1 ELSE decimals.value.lo)>>, 2)

\* (x) as u8 as Scalar
BoolScalar(b) == Scalar(U256Of(IF b THEN 1 ELSE 0), 0)

\* get_erc721_balance, given what call_contract returned: ownerOf(id) for
\* Some(id), balanceOf(user_address) for None.
GetErc721Balance(token_id, user_address, reply) ==
    IF ~reply.ok THEN RsErr("Reqwest", 1)
    ELSE IF token_id.some
         THEN IF reply.text.len < 26 THEN RsPanic(1)
              ELSE RsOk(<<BoolScalar(reply.text.tail = user_address)>>, 1)
         ELSE IF ~FromStr(reply.text).ok THEN RsErr("Other", 1)
              ELSE IF ~FitsU128(FromStr(reply.text).value) THEN RsPanic(1)
              ELSE RsOk(<<Scalar(FromStr(reply.text).value, 0)>>, 1)

\* get_erc1155_balance
GetErc1155Balance(reply) ==
    IF ~reply.ok THEN RsErr("Reqwest", 1)
    ELSE IF ~FromStr(reply.text).ok THEN RsErr("Other", 1)
    ELSE IF ~FitsU128(FromStr(reply.text).value) THEN RsPanic(1)
    ELSE RsOk(<<Scalar(FromStr(reply.text).value, 0)>>, 1)

\* chunks(64).skip(2): the words of a result after its two header words
SkipTwo(words) == SubSeq(words, 3, Len(words))

\* parse_multicall_result: every word after the two header words decoded as a
\* balance, a word that does not decode counting as zero.
ParseMulticallResult(words) ==
    LET rest == SkipTwo(words)
    IN [ok |-> TRUE,
        value |-> [k \in 1..Len(rest) |->
                      IF rest[k].valid THEN Scalar(rest[k].value, 0)
                      ELSE Scalar(U256Of(0), 0)],
        error |-> "none"]

\* balance / ETH_BALANCE_DIVIDER
DivideByEth(x) == [x EXCEPT !.exp = x.exp + ETH_DECIMALS]

\* get_eth_balance_batch and get_erc20_balance_batch share their body: the
\* aggregated call, parse_multicall_result(&reply)?, and the division of each
\* balance by ETH_BALANCE_DIVIDER.
GetEthBalanceBatch(reply) ==
    IF ~reply.ok THEN RsErr("Reqwest", 1)
    ELSE LET parsed == ParseMulticallResult(reply.text)
         IN IF ~parsed.ok THEN RsErr(parsed.error, 1)
            ELSE RsOk([k \in 1..Len(parsed.value) |-> DivideByEth(parsed.value[k])], 1)

GetErc20BalanceBatch(reply) == GetEthBalanceBatch(reply)

\* get_erc721_balance_batch: balanceOf for every holder; it takes no token id.
GetErc721BalanceBatch(reply) ==
    IF ~reply.ok THEN RsErr("Reqwest", 1)
    ELSE LET parsed == ParseMulticallResult(reply.text)
         IN IF ~parsed.ok THEN RsErr(parsed.error, 1)
            ELSE RsOk(parsed.value, 1)

\* get_erc1155_balance_batch: every word after the first two goes through
\* U256::from_str(..).map(|value| value.as_u128() as Scalar), then the Vec of
\* results is collected into one Result.
GetErc1155BalanceBatch(reply) ==
    IF ~reply.ok THEN RsErr("Reqwest", 1)
    ELSE LET rest == SkipTwo(reply.text)
             balances == [k \in 1..Len(rest) |->
                             IF rest[k].valid
                             THEN [ok |-> TRUE, value |-> Scalar(rest[k].value, 0),
                                   error |-> "none"]
                             ELSE [ok |-> FALSE, value |-> Scalar(U256Of(0), 0),
                                   error |-> "Other"]]
             collected == Collect(balances)
         IN IF \E k \in 1..Len(rest) : rest[k].valid /\ ~FitsU128(rest[k].value)
            THEN RsPanic(1)
            ELSE IF collected.ok THEN RsOk(collected.value, 1)
            ELSE RsErr(collected.error, 1)

\* vec![0.0; addresses.len()] with a length that is one short
ZeroesButOne(n) == [k \in 1..(IF n = 0 THEN 0 ELSE n - 1) |-> Scalar(U256Of(0), 0)]

\* vec![0.0; addresses.len()]
Zeroes(n) == [k \in 1..n |-> Scalar(U256Of(0), 0)]

\* EvmProvider::get_balance_batch: the dispatch on the token type.  The id of
\* a NonFungible token is not bound to a name.
GetBalanceBatch(token_type, addresses, reply) ==
    CASE token_type.kind = "Native" -> GetEthBalanceBatch(reply)
      [] token_type.kind = "Fungible" -> GetErc20BalanceBatch(reply)
      [] token_type.kind = "NonFungible" -> GetErc721BalanceBatch(reply)
      [] token_type.kind = "Special" ->
            IF token_type.id.some THEN GetErc1155BalanceBatch(reply)
            ELSE RsOk(Zeroes(Len(addresses)), 0)

\* ---------------------------------------------- resolver calls
\* What the chain holds for the queried token: balance is balanceOf(holder)
\* (the ether balance for Native, balanceOf(holder, id) for Special), owner is
\* ownerOf(id) of a NonFungible token, decimals is decimals() of a Fungible one.
\* The owner of a token holds at least that token.
Chains(token_type) ==
    {c \in [balance : [Addresses -> U256s],
            owner : IF token_type.kind = "NonFungible"
                    THEN Addresses \cup {OtherAccount} ELSE {OtherAccount},
            decimals : IF token_type.kind = "Fungible" THEN Decimals ELSE {0}] :
        c.owner \in Addresses => c.balance[c.owner] # U256Of(0)}

SingleFunctions ==
    [get_erc20_balance |-> "Fungible", get_erc721_balance |-> "NonFungible",
     get_erc1155_balance |-> "Special"]

\* A call of one of the single-holder functions, or of get_balance_batch.
Queries ==
    {q \in [fn : DOMAIN SingleFunctions, token_type : TokenTypes,
            holders : {<<a>> : a \in Addresses}] :
        /\ q.token_type.kind = SingleFunctions[q.fn]
        /\ q.fn = "get_erc1155_balance" => q.token_type.id.some}
      \cup [fn : {"get_balance_batch"}, token_type : TokenTypes,
            holders : SeqsUpTo(Addresses, MaxHolders)]

\* What call_contract may return for a call whose honest result is this text.
Replies(text, garbled) == {Sent(text), Sent(garbled), Failed(garbled)}

\* The result of an aggregated or batched call: two header words, then one
\* word per holder.
BatchWords(chain, holders) ==
    <<Word(U256Of(32)), Word(U256Of(Len(holders)))>>
      \o [k \in 1..Len(holders) |-> Word(chain.balance[holders[k]])]

\* The node may also cut the result short or return a word that is no number.
BatchReplies(words) ==
    {Failed(<<>>)}
      \cup {Sent(SubSeq(words, 1, k)) : k \in 0..Len(words)}
      \cup {Sent([words EXCEPT ![k] = BadWord]) : k \in 3..Len(words)}

InitResolver ==
    /\ IdleEngine
    /\ IdleBatch
    /\ IdlePure
    /\ IdleAggregate
    /\ IdleBalancy
    /\ rs_query \in Queries
    /\ rs_chain \in Chains(rs_query.token_type)
    /\ rs_result = [state |-> "pending", value |-> <<>>, error |-> "none",
                    requests |-> 0, reply |-> Failed(<<>>)]
    /\ rs_requests = 0

\* The call returns: its outcome and the requests it sent are recorded, with
\* the reply to a batch when one was requested.
Return(out, reply) ==
    /\ rs_result' = [state |-> out.state, value |-> out.value, error |-> out.error,
                     requests |-> out.requests,
                     reply |-> IF out.requests = 0 THEN Failed(<<>>) ELSE reply]
    /\ rs_requests' = rs_requests + out.requests
    /\ UNCHANGED <<rs_query, rs_chain, engine_vars, rb_vars, pf_vars, ag_vars, bl_vars>>

CallGetErc20Balance ==
    /\ rs_result.state = "pending"
    /\ rs_query.fn = "get_erc20_balance"
    /\ \E build \in Builds,
          balance \in Replies(Word(rs_chain.balance[rs_query.holders[1]]), BadWord),
          decimals \in Replies(Word(U256Of(rs_chain.decimals)), BadWord) :
          Return(GetErc20Balance(build, balance, decimals), Failed(<<>>))

CallGetErc721Balance ==
    /\ rs_result.state = "pending"
    /\ rs_query.fn = "get_erc721_balance"
    /\ \E reply \in IF rs_query.token_type.id.some
                    THEN Replies(OwnerText(rs_chain.owner), EmptyText)
                    ELSE Replies(Word(rs_chain.balance[rs_query.holders[1]]), BadWord) :
          Return(GetErc721Balance(rs_query.token_type.id, rs_query.holders[1], reply),
                 Failed(<<>>))

CallGetErc1155Balance ==
    /\ rs_result.state = "pending"
    /\ rs_query.fn = "get_erc1155_balance"
    /\ \E reply \in Replies(Word(rs_chain.balance[rs_query.holders[1]]), BadWord) :
          Return(GetErc1155Balance(reply), Failed(<<>>))

CallGetBalanceBatch ==
    /\ rs_result.state = "pending"
    /\ rs_query.fn = "get_balance_batch"
    /\ \E reply \in BatchReplies(BatchWords(rs_chain, rs_query.holders)) :
          Return(GetBalanceBatch(rs_query.token_type, rs_query.holders, reply), reply)

NextResolver ==
    \/ CallGetErc20Balance
    \/ CallGetErc721Balance
    \/ CallGetErc1155Balance
    \/ CallGetBalanceBatch

SpecResolver == InitResolver /\ [][NextResolver]_vars

\* ------------------------------------------- claims on the resolver
ResolverReturned == rs_result.state # "pending"
WithTokenId(kind) == rs_query.token_type.kind = kind /\ rs_query.token_type.id.some

\* The node answered a batch in full: one decodable word per holder.
FullReply ==
    rs_query.fn = "get_balance_batch"
        => rs_result.reply = Sent(BatchWords(rs_chain, rs_query.holders))

\* C11: for a NonFungible token with a token id, every balance the resolver
\* returns, from the single-holder lookup and in each entry of a batch lookup
\* that the node answered in full, is 1 when ownerOf(id) on the chain is that
\* holder and 0 otherwise.
C11_BalanceIsOwnership ==
    (rs_result.state = "Ok" /\ WithTokenId("NonFungible") /\ FullReply)
        => \A k \in 1..Len(rs_result.value) :
              rs_result.value[k] = BoolScalar(rs_chain.owner = rs_query.holders[k])

\* C12: for a Fungible token that reports d decimals, 10^d fitting in 128 bits,
\* every balance the resolver returns, from the single-holder lookup and in each
\* entry of a batch lookup that the node answered in full, is the holder's raw
\* balance divided by 10^d.
C12_NormalizedByDecimals ==
    (/\ rs_result.state = "Ok"
     /\ rs_query.token_type.kind = "Fungible"
     /\ rs_chain.decimals <= U128_MAX_POW10
     /\ FullReply)
        => \A k \in 1..Len(rs_result.value) :
              Normal(rs_result.value[k])
                = Normal(Scalar(rs_chain.balance[rs_query.holders[k]], rs_chain.decimals))

\* C13: a single-holder resolver call never aborts, and it returns Ok only with
\* a balance it could compute: a failure (an ownerOf result too short to hold an
\* address, a raw balance beyond 128 bits, a divider 10^d beyond 128 bits)
\* comes back as Err(RpcError).
C13_SingleCallFailsTyped ==
    rs_query.fn \in DOMAIN SingleFunctions
        => /\ rs_result.state \in {"pending", "Ok", "Err"}
           /\ \A k \in 1..Len(rs_result.value) : rs_result.value[k].exp >= 0

\* The words of the node's reply all fit in 128 bits.
ReplyFits ==
    \A k \in 1..Len(rs_result.reply.text) :
        rs_result.reply.text[k].valid => FitsU128(rs_result.reply.text[k].value)

\* The balance decoded for holder k from the reply, zero standing for a word
\* that is missing or is no number.
DecodedOrZero(k) ==
    IF k + 2 <= Len(rs_result.reply.text) /\ rs_result.reply.text[k + 2].valid
    THEN Scalar(rs_result.reply.text[k + 2].value, 0)
    ELSE Scalar(U256Of(0), 0)

\* C14: a batch lookup for n holders of a Special token with an id, whatever
\* the node's reply (shorter than 2 + n words, or holding a word that is no
\* number), returns Ok with n entries, zero for each missing or undecodable one.
C14_ShortReplyDecodesToZeroes ==
    (/\ ResolverReturned
     /\ rs_query.fn = "get_balance_batch"
     /\ WithTokenId("Special")
     /\ rs_result.reply.ok
     /\ ReplyFits)
        => /\ rs_result.state = "Ok"
           /\ Len(rs_result.value) = Len(rs_query.holders)
           /\ \A k \in 1..Len(rs_result.value) : rs_result.value[k] = DecodedOrZero(k)

\* C17: get_balance_batch for a Special token without an id returns Ok with one
\* zero balance per input address and sends no request.
C17_SpecialWithoutIdIsZero ==
    (/\ ResolverReturned
     /\ rs_query.fn = "get_balance_batch"
     /\ rs_query.token_type.kind = "Special"
     /\ ~rs_query.token_type.id.some)
        => /\ rs_result.state = "Ok"
           /\ Len(rs_result.value) = Len(rs_query.holders)
           /\ \A k \in 1..Len(rs_result.value) : rs_result.value[k] = Scalar(U256Of(0), 0)
           /\ rs_requests = 0

\* A batch over several holders of a Special token without an id has returned,
\* one of the holders having a balance on the chain.
C17_Witness ==
    /\ ResolverReturned
    /\ rs_query.fn = "get_balance_batch"
    /\ rs_query.token_type = [kind |-> "Special", id |-> NoTokenId]
    /\ Len(rs_query.holders) >= 2
    /\ rs_chain.balance[rs_query.holders[1]] # U256Of(0)


\* ================================================ multicall::aggregate
\*   src/providers/src/evm/jsonrpc/contract/multicall.rs
\* Strings are sequences of their characters; calldata is hex text, two
\* characters to the byte.
MaxCalls == 2

HexDigits == <<"0", "1", "2", "3", "4", "5", "6", "7",
               "8", "9", "a", "b", "c", "d", "e", "f">>

\* vec![c; n].join("")
Repeat(c, n) == [k \in 1..n |-> c]

\* format!("{:x}", n)
RECURSIVE LowerHex(_)
LowerHex(n) ==
    IF n < 16 THEN <<HexDigits[n + 1]>>
    ELSE Append(LowerHex(n \div 16), HexDigits[(n % 16) + 1])

\* format!("{:064x}", n)
Fmt064x(n) ==
    LET digits == LowerHex(n)
    IN IF Len(digits) >= 64 THEN digits ELSE Repeat("0", 64 - Len(digits)) \o digits

AGGREGATE_FUNC_SIG == <<"2", "5", "2", "d", "b", "a", "4", "2">>
PARAM_COUNT_LEN == 32
DATA_PART_LEN == 64
ZEROES == Repeat("0", 24)

\* format!("{:x}", target) of an H160: its 40 hex digits.
Targets == {Repeat("a", 40), Repeat("b", 40)}

FUNC_DECIMALS == <<"3", "1", "3", "c", "e", "5", "6", "7">>
FUNC_BALANCE_OF == <<"7", "0", "a", "0", "8", "2", "3", "1">>
FUNC_ERC1155 == <<"0", "0", "f", "d", "d", "5", "8", "e">>

\* The calldata of the calls the resolver builds: decimals() (4 bytes),
\* erc20_call (36 bytes), erc1155_call (68 bytes), and a calldata of 64 bytes.
CallDatas ==
    { FUNC_DECIMALS,
      FUNC_BALANCE_OF \o ZEROES \o Repeat("c", 40),
      FUNC_BALANCE_OF \o ZEROES \o Repeat("c", 40) \o Repeat("d", 56),
      FUNC_ERC1155 \o ZEROES \o Repeat("c", 40) \o Fmt064x(1) }

Calls == [target : Targets, call_data : CallDatas]

\* call.call_data.len() / 2
DataLen(call) == Len(call.call_data) \div 2

\* As TupleBody, but padding with one character per missing byte.
TupleBodyHalfPadded(call) ==
    ZEROES \o call.target \o Fmt064x(DATA_PART_LEN) \o Fmt064x(DataLen(call))
      \o call.call_data \o Repeat("0", DATA_PART_LEN - DataLen(call))

\* The closure of the map: one call's tuple.
TupleBody(call) ==
    ZEROES \o call.target \o Fmt064x(DATA_PART_LEN) \o Fmt064x(DataLen(call))
      \o call.call_data \o Repeat("0", (DATA_PART_LEN - DataLen(call)) * 2)

\* .reduce(|a, b| format!("{a}{b}")).unwrap_or_default()
RECURSIVE Aggregated(_)
Aggregated(calls) ==
    IF calls = <<>> THEN <<>> ELSE TupleBody(Head(calls)) \o Aggregated(Tail(calls))

\* As Offsets, but stepping the factor by four.
RECURSIVE OffsetsStepFour(_, _)
OffsetsStepFour(count, factor) ==
    IF count = 0 THEN <<>>
    ELSE Fmt064x(factor * 32) \o OffsetsStepFour(count - 1, factor + 4)

\* The loop over 0..calls.len(): offset += format!("{:064x}", factor * 32);
\* factor += 5.
RECURSIVE Offsets(_, _)
Offsets(count, factor) ==
    IF count = 0 THEN <<>>
    ELSE Fmt064x(factor * 32) \o Offsets(count - 1, factor + 5)

\* As Aggregate, but leaving long calldata unpadded instead of aborting.
AggregateUnchecked(calls) ==
    [state |-> "Ok",
     data |-> AGGREGATE_FUNC_SIG \o Fmt064x(PARAM_COUNT_LEN) \o Fmt064x(Len(calls))
                \o Offsets(Len(calls), Len(calls)) \o Aggregated(calls)]

\* aggregate.  DATA_PART_LEN - data_len is a usize subtraction: for a calldata
\* of more than 64 bytes it panics with overflow checks on, and without them
\* wraps to a length no Vec can have, so that the call aborts in every build.
Aggregate(calls) ==
    IF \E k \in 1..Len(calls) : DataLen(calls[k]) > DATA_PART_LEN
    THEN [state |-> "panic", data |-> <<>>]
    ELSE [state |-> "Ok",
          data |-> AGGREGATE_FUNC_SIG \o Fmt064x(PARAM_COUNT_LEN) \o Fmt064x(Len(calls))
                     \o Offsets(Len(calls), Len(calls)) \o Aggregated(calls)]

InitAggregate ==
    /\ IdleEngine
    /\ IdleBatch
    /\ IdlePure
    /\ IdleResolver
    /\ IdleBalancy
    /\ ag_calls \in SeqsUpTo(Calls, MaxCalls)
    /\ ag_result = [state |-> "pending", data |-> <<>>]

CallAggregate ==
    /\ ag_result.state = "pending"
    /\ ag_result' = Aggregate(ag_calls)
    /\ UNCHANGED <<ag_calls, engine_vars, rb_vars, pf_vars, rs_vars, bl_vars>>

NextAggregate == CallAggregate

SpecAggregate == InitAggregate /\ [][NextAggregate]_vars

\* -------------------------------------------- claims on aggregate
\* The value of a hex digit, and of hex text.
DigitValue(c) == CHOOSE d \in 0..15 : HexDigits[d + 1] = c

RECURSIVE FromHex(_)
FromHex(text) ==
    IF text = <<>> THEN 0
    ELSE 16 * FromHex(SubSeq(text, 1, Len(text) - 1)) + DigitValue(text[Len(text)])

\* The 32-byte word number w (from 0) after the selector of the output.
WordAt(w) == SubSeq(ag_result.data, 8 + 64 * w + 1, 8 + 64 * (w + 1))

\* Calldata right-padded with zeros to 64 bytes.
PaddedTo64Bytes(call_data) == call_data \o Repeat("0", 128 - Len(call_data))

\* C15: for n >= 0 calls of at most 64 bytes of calldata each, the output of
\* aggregate is the selector 252dba42, the word 0x20, the word n, n offset
\* words and n tuple bodies of five words each: the target in the low 20 bytes
\* of a word, the word 64, the calldata's byte length, and the calldata
\* right-padded with zeros to 64 bytes.  For n = 0 nothing follows the count.
C15_AggregateLayout ==
    ag_result.state = "Ok"
        => LET n == Len(ag_calls)
           IN /\ Len(ag_result.data) = 8 + 64 * (2 + n + 5 * n)
              /\ SubSeq(ag_result.data, 1, 8) = <<"2", "5", "2", "d", "b", "a", "4", "2">>
              /\ FromHex(WordAt(0)) = 32
              /\ FromHex(WordAt(1)) = n
              /\ \A i \in 0..(n - 1) :
                    LET call == ag_calls[i + 1]
                        base == 2 + n + 5 * i
                    IN /\ SubSeq(WordAt(base), 1, 24) = Repeat("0", 24)
                       /\ SubSeq(WordAt(base), 25, 64) = call.target
                       /\ FromHex(WordAt(base + 1)) = 64
                       /\ 2 * FromHex(WordAt(base + 2)) = Len(call.call_data)
                       /\ WordAt(base + 3) \o WordAt(base + 4)
                            = PaddedTo64Bytes(call.call_data)

\* aggregate has returned for two calls with calldata of different lengths,
\* one of them of the full 64 bytes.
C15_Witness ==
    /\ ag_result.state = "Ok"
    /\ Len(ag_calls) = 2
    /\ Len(ag_calls[1].call_data) = 128
    /\ Len(ag_calls[2].call_data) < 128

\* The number of characters of the output between the start of the offset
\* table and the start of the tuple body of call i (from 0).
RECURSIVE CharsBefore(_)
CharsBefore(i) ==
    IF i = 0 THEN 64 * Len(ag_calls)
    ELSE CharsBefore(i - 1) + Len(TupleBody(ag_calls[i]))

\* C16: in the output of aggregate for n calls, the offset word of call i
\* (from 0) is (n + 5 * i) * 32, and that many bytes after the start of the
\* offset table the tuple body of call i starts.
C16_OffsetsPointAtBodies ==
    ag_result.state = "Ok"
        => LET n == Len(ag_calls)
           IN \A i \in 0..(n - 1) :
                 LET offset == FromHex(WordAt(2 + i))
                     start == 8 + 64 * 2 + 2 * offset
                 IN /\ offset = (n + 5 * i) * 32
                    /\ 2 * offset = CharsBefore(i)
                    /\ SubSeq(ag_result.data, start + 1,
                              start + Len(TupleBody(ag_calls[i + 1])))
                         = TupleBody(ag_calls[i + 1])

\* aggregate has returned for two calls to different targets.
C16_Witness ==
    /\ ag_result.state = "Ok"
    /\ Len(ag_calls) = 2
    /\ ag_calls[1].target # ag_calls[2].target


\* ==================================================== BalancyProvider
\*   src/providers/src/evm/balancy/mod.rs
MaxQueried == 2

EvmChains == {"Ethereum", "Bsc", "Gnosis", "Polygon", "Goerli"}

\* Option<u8>
NoChainId == [some |-> FALSE, value |-> 0]
ChainId(i) == [some |-> TRUE, value |-> i]

\* As BalancyId, with an id for every chain.
BalancyIdOfAnyChain(chain) ==
    CASE chain = "Ethereum" -> ChainId(1)
      [] chain = "Bsc" -> ChainId(56)
      [] chain = "Gnosis" -> ChainId(100)
      [] chain = "Polygon" -> ChainId(137)
      [] OTHER -> ChainId(5)

\* BalancyId::balancy_id
BalancyId(chain) ==
    CASE chain = "Ethereum" -> ChainId(1)
      [] chain = "Bsc" -> ChainId(56)
      [] chain = "Gnosis" -> ChainId(100)
      [] chain = "Polygon" -> ChainId(137)
      [] OTHER -> NoChainId

\* ethereum_types::U256 amounts top * 2^255 + low; low stays far below 2^255.
Amount(top, low) == [top |-> top, low |-> low]
AmountZero == Amount(0, 0)
AmountOne == Amount(0, 1)
AmountHalf == Amount(1, 0)

\* One token of the account in the service's answer: whether its token_address
\* is the queried one, its token_id (the queried id is 1) and its amount.
Entry(queried, id, amount) == [queried |-> queried, token_id |-> id, amount |-> amount]

\* The token lists the service may answer with.
TokenLists ==
    { <<>>,
      <<Entry(TRUE, 1, AmountOne)>>,
      <<Entry(FALSE, 1, AmountOne), Entry(TRUE, 2, AmountOne)>>,
      <<Entry(TRUE, 1, AmountOne), Entry(TRUE, 2, AmountOne)>>,
      <<Entry(TRUE, 1, AmountHalf), Entry(TRUE, 2, AmountHalf)>> }

\* What comes back for one GET: a transport failure, a status other than 200,
\* a 200 whose body is no BalancyResponse, or a 200 with a token list.
HttpFailures == {"SendError", "BadJson", "BAD_REQUEST", "TOO_MANY_REQUESTS", "OTHER"}
HttpReplies ==
    [status : HttpFailures, result : {<<>>}] \cup [status : {"OK"}, result : TokenLists]

\* What a BalancyProvider function returns, with the GET requests it sent.
BlOk(v, n) == [state |-> "Ok", value |-> v, error |-> "none", requests |-> n]
BlErr(e, n) == [state |-> "Err", value |-> AmountZero, error |-> e, requests |-> n]
BlPanic(n) == [state |-> "panic", value |-> AmountZero, error |-> "none", requests |-> n]

\* make_balancy_request, given what the GET would come back with.  Nothing is
\* sent for a chain without a balancy id.
MakeBalancyRequest(chain, reply) ==
    IF ~BalancyId(chain).some THEN BlErr("ChainNotSupported", 0)
    ELSE CASE reply.status = "SendError" -> BlErr("Reqwest", 1)
           [] reply.status = "OK" -> BlOk(reply.result, 1)
           [] reply.status = "BadJson" -> BlErr("Reqwest", 1)
           [] reply.status = "BAD_REQUEST" -> BlErr("InvalidBalancyRequest", 1)
           [] reply.status = "TOO_MANY_REQUESTS" -> BlErr("TooManyRequests", 1)
           [] OTHER -> BlErr("Unknown", 1)

\* .filter(|token| token.token_address == token_address && match token_id ..)
RECURSIVE FilterTokens(_, _)
FilterTokens(tokens, token_id) ==
    IF tokens = <<>> THEN <<>>
    ELSE LET t == Head(tokens)
             rest == FilterTokens(Tail(tokens), token_id)
         IN IF t.queried /\ (token_id.some => t.token_id = token_id.value)
            THEN <<t>> \o rest ELSE rest

\* a + b of two U256: panics on overflow.
AddOverflows(a, b) == a.top + b.top >= 2
Add(a, b) == Amount(a.top + b.top, a.low + b.low)

\* .map(|token| token.amount).reduce(|a, b| a + b): the sum so far, and
\* whether an addition overflowed.
RECURSIVE Reduce(_, _)
Reduce(acc, tokens) ==
    IF tokens = <<>> THEN [overflow |-> FALSE, value |-> acc]
    ELSE IF AddOverflows(acc, Head(tokens).amount)
         THEN [overflow |-> TRUE, value |-> acc]
         ELSE Reduce(Add(acc, Head(tokens).amount), Tail(tokens))

\* get_erc20_balance: the amount of the first token with the queried address.
BalancyGetErc20Balance(chain, reply) ==
    LET tokens == MakeBalancyRequest(chain, reply)
    IN IF tokens.state # "Ok" THEN tokens
       ELSE LET found == FilterTokens(tokens.value, NoTokenId)
            IN BlOk(IF found = <<>> THEN AmountZero ELSE found[1].amount, tokens.requests)

\* get_erc721_balance: the number of matching tokens.
BalancyGetErc721Balance(chain, token_id, reply) ==
    LET tokens == MakeBalancyRequest(chain, reply)
    IN IF tokens.state # "Ok" THEN tokens
       ELSE BlOk(Amount(0, Len(FilterTokens(tokens.value, token_id))), tokens.requests)

\* get_erc1155_balance: the sum of the amounts of the matching tokens.
BalancyGetErc1155Balance(chain, token_id, reply) ==
    LET tokens == MakeBalancyRequest(chain, reply)
    IN IF tokens.state # "Ok" THEN tokens
       ELSE LET found == FilterTokens(tokens.value, token_id)
                sum == IF found = <<>> THEN [overflow |-> FALSE, value |-> AmountZero]
                       ELSE Reduce(found[1].amount, Tail(found))
            IN IF sum.overflow THEN BlPanic(tokens.requests)
               ELSE BlOk(sum.value, tokens.requests)

\* BalancyProvider::get_balance_for_one: the match on the token type comes
\* before anything else.
GetBalanceForOne(chain, token_type, reply) ==
    CASE token_type.kind = "Fungible" -> BalancyGetErc20Balance(chain, reply)
      [] token_type.kind = "NonFungible" ->
            BalancyGetErc721Balance(chain, token_type.id, reply)
      [] token_type.kind = "Special" ->
            BalancyGetErc1155Balance(chain, token_type.id, reply)
      [] token_type.kind = "Native" -> BlErr("TokenTypeNotSupported", 0)

\* .unwrap_or(U256::from(0))
OrZero(out) == IF out.state = "Ok" THEN out.value ELSE AmountZero

RECURSIVE SumRequests(_)
SumRequests(outs) ==
    IF outs = <<>> THEN 0 ELSE Head(outs).requests + SumRequests(Tail(outs))

\* BalancyProvider::get_balance_for_many: join_all over one future per address,
\* each get_balance_for_one(..).await.unwrap_or(U256::from(0)), wrapped in Ok.
\* A panic in one of the futures comes out of join_all.
GetBalanceForMany(chain, token_type, replies) ==
    LET outs == [k \in 1..Len(replies) |-> GetBalanceForOne(chain, token_type, replies[k])]
    IN IF \E k \in 1..Len(outs) : outs[k].state = "panic"
       THEN [state |-> "panic", value |-> <<>>, error |-> "none",
             requests |-> SumRequests(outs)]
       ELSE [state |-> "Ok", value |-> [k \in 1..Len(outs) |-> OrZero(outs[k])],
             error |-> "none", requests |-> SumRequests(outs)]

\* A call of get_balance_for_one or get_balance_for_many; addresses holds the
\* positions of the queried addresses and bl_service what the GET for each of
\* them would come back with.
InitBalancy ==
    /\ IdleEngine
    /\ IdleBatch
    /\ IdlePure
    /\ IdleResolver
    /\ IdleAggregate
    /\ bl_query \in
          [fn : {"get_balance_for_one"}, chain : EvmChains, token_type : TokenTypes,
           addresses : {<<1>>}]
            \cup [fn : {"get_balance_for_many"}, chain : EvmChains,
                  token_type : TokenTypes,
                  addresses : {[k \in 1..n |-> k] : n \in 0..MaxQueried}]
    /\ bl_service \in [1..Len(bl_query.addresses) -> HttpReplies]
    /\ bl_result = [state |-> "pending", value |-> <<>>, error |-> "none"]
    /\ bl_requests = 0

CallGetBalanceForOne ==
    /\ bl_result.state = "pending"
    /\ bl_query.fn = "get_balance_for_one"
    /\ LET out == GetBalanceForOne(bl_query.chain, bl_query.token_type, bl_service[1])
       IN /\ bl_result' = [state |-> out.state, value |-> <<out.value>>,
                           error |-> out.error]
          /\ bl_requests' = bl_requests + out.requests
    /\ UNCHANGED <<bl_query, bl_service, engine_vars, rb_vars, pf_vars, rs_vars, ag_vars>>

CallGetBalanceForMany ==
    /\ bl_result.state = "pending"
    /\ bl_query.fn = "get_balance_for_many"
    /\ LET out == GetBalanceForMany(bl_query.chain, bl_query.token_type, bl_service)
       IN /\ bl_result' = [state |-> out.state, value |-> out.value, error |-> out.error]
          /\ bl_requests' = bl_requests + out.requests
    /\ UNCHANGED <<bl_query, bl_service, engine_vars, rb_vars, pf_vars, rs_vars, ag_vars>>

NextBalancy ==
    \/ CallGetBalanceForOne
    \/ CallGetBalanceForMany

SpecBalancy == InitBalancy /\ [][NextBalancy]_vars

\* ------------------------------------- claims on the BalancyProvider
BalancyReturned == bl_result.state # "pending"
AllowList == {"Ethereum", "Bsc", "Gnosis", "Polygon"}

\* C18: get_balance_for_many always returns Ok with one balance per input
\* address, in input order: the balance of the lookup for that address, or 0
\* when that lookup failed, whatever the lookups of the other addresses did.
C18_ManyAlwaysOk ==
    (BalancyReturned /\ bl_query.fn = "get_balance_for_many")
        => /\ bl_result.state = "Ok"
           /\ Len(bl_result.value) = Len(bl_query.addresses)
           /\ \A k \in 1..Len(bl_result.value) :
                 bl_result.value[k]
                   = OrZero(GetBalanceForOne(bl_query.chain, bl_query.token_type,
                                             bl_service[k]))

\* C19: a query for the Native token fails with TokenTypeNotSupported, from
\* get_balance_for_one and from get_balance_for_many alike.
C19_NativeIsRefused ==
    (BalancyReturned /\ bl_query.token_type.kind = "Native" /\ bl_query.addresses # <<>>)
        => bl_result.state = "Err" /\ bl_result.error = "TokenTypeNotSupported"

\* C20 as stated: for a chain outside the allow-list, get_balance_for_one
\* returns ChainNotSupported and has sent no HTTP request.
C20_UnsupportedChainFailsFast ==
    (/\ BalancyReturned
     /\ bl_query.fn = "get_balance_for_one"
     /\ bl_query.chain \notin AllowList)
        => /\ bl_result.state = "Err"
           /\ bl_result.error = "ChainNotSupported"
           /\ bl_requests = 0

\* C20, amended: for a chain outside the allow-list, get_balance_for_one sends
\* no HTTP request and returns ChainNotSupported for a Fungible, NonFungible or
\* Special token, and TokenTypeNotSupported for the Native token.
C20_UnsupportedChainOrTokenFailsFast ==
    (/\ BalancyReturned
     /\ bl_query.fn = "get_balance_for_one"
     /\ bl_query.chain \notin AllowList)
        => /\ bl_result.state = "Err"
           /\ bl_result.error = IF bl_query.token_type.kind = "Native"
                                THEN "TokenTypeNotSupported" ELSE "ChainNotSupported"
           /\ bl_requests = 0

\* get_balance_for_one has returned for a Fungible token on Goerli, for an
\* address of which the service would have listed a token.
C20_Witness ==
    /\ BalancyReturned
    /\ bl_query.fn = "get_balance_for_one"
    /\ bl_query.chain = "Goerli"
    /\ bl_query.token_type.kind = "Fungible"
    /\ bl_service[1] = [status |-> "OK", result |-> <<Entry(TRUE, 1, AmountOne)>>]


\* ===================================================== Relation::assert
\*   src/common/src/lib.rs, src/requirements/src/relation.rs
\* The values compared are the ordered values of T (u32, or an f64 that came
\* out of JSON and so is no NaN), modelled as 0..MaxScalar.
MaxScalar == 3
Scalars == 0..MaxScalar

\* Relation<T>: a is the operand, or the start of the range whose end is b.
Relations ==
    [kind : {"EqualTo", "GreaterThan", "GreaterOrEqualTo", "LessThan", "LessOrEqualTo"},
     a : Scalars, b : {0}]
      \cup [kind : {"Between", "BetweenInclusive"}, a : Scalars, b : Scalars]

\* As RangeContains, with the end included.
RangeContainsClosed(start, end, x) == start <= x /\ x <= end

\* Range::contains
RangeContains(start, end, x) == start <= x /\ x < end

\* RangeInclusive::contains
RangeInclusiveContains(start, end, x) == start <= x /\ x <= end

\* Relation::assert
RelationHolds(relation, x) ==
    CASE relation.kind = "EqualTo" -> x = relation.a
      [] relation.kind = "GreaterThan" -> x > relation.a
      [] relation.kind = "GreaterOrEqualTo" -> x >= relation.a
      [] relation.kind = "LessThan" -> x < relation.a
      [] relation.kind = "LessOrEqualTo" -> x <= relation.a
      [] relation.kind = "Between" -> RangeContains(relation.a, relation.b, x)
      [] relation.kind = "BetweenInclusive" ->
            RangeInclusiveContains(relation.a, relation.b, x)

InitRelation ==
    /\ IdleEngine
    /\ IdleBatch
    /\ IdleProviders
    /\ IdleHash
    /\ IdleCheck
    /\ IdleBatchCall
    /\ ra_relation \in Relations
    /\ ra_x \in Scalars
    /\ ra_result = [state |-> "pending", value |-> FALSE]

CallRelation ==
    /\ ra_result.state = "pending"
    /\ ra_result' = [state |-> "returned", value |-> RelationHolds(ra_relation, ra_x)]
    /\ UNCHANGED <<ra_relation, ra_x, engine_vars, rb_vars, px_vars,
                   hs_vars, ck_vars, bc_vars>>

NextRelation == CallRelation

SpecRelation == InitRelation /\ [][NextRelation]_vars

\* ------------------------------------------ claims on Relation::assert
\* C22: assert(x) is the standard comparison of x with the operand of the
\* variant: =, >, >=, <, <= for the five one-operand variants, a <= x < b for
\* Between(a..b) and a <= x <= b for BetweenInclusive(a..=b).
C22_RelationIsComparison ==
    ra_result.state = "returned"
        => LET k == ra_relation.kind
               a == ra_relation.a
               b == ra_relation.b
           IN /\ k = "EqualTo" => (ra_result.value <=> ra_x = a)
              /\ k = "GreaterThan" => (ra_result.value <=> ra_x > a)
              /\ k = "GreaterOrEqualTo" => (ra_result.value <=> ~(ra_x < a))
              /\ k = "LessThan" => (ra_result.value <=> ra_x < a)
              /\ k = "LessOrEqualTo" => (ra_result.value <=> ~(ra_x > a))
              /\ k = "Between" => (ra_result.value <=> (ra_x \in a..b /\ ra_x # b))
              /\ k = "BetweenInclusive" => (ra_result.value <=> ra_x \in a..b)

\* assert has returned for Between(a..b) with a < b, the candidate being b.
C22_Witness ==
    /\ ra_result.state = "returned"
    /\ ra_relation.kind = "Between"
    /\ ra_relation.a < ra_relation.b
    /\ ra_x = ra_relation.b


\* =================================================== hash_string_to_f64
\*   src/requirements/src/utils.rs
MaxHashCalls == 2

HashedStrings == {"Walter", "Jesse"}

\* Unsigned integers top * 2^64 + off, with off far nearer to 0 than 2^63 (a
\* negative off counts down from 2^64).
Big(top, off) == [top |-> top, off |-> off]
BigLess(x, y) == x.top < y.top \/ (x.top = y.top /\ x.off < y.off)

\* What DefaultHasher::finish may return for a string: a u64, here one of the
\* smallest and of the largest.
HashValues ==
    {Big(0, 0), Big(0, 1), Big(1, -1), Big(1, -1024), Big(1, -1025), Big(1, -3072)}

\* prime = 18446744073709551629 = 2^64 + 13
PRIME_ABOVE_2_64 == 13
Prime == Big(1, PRIME_ABOVE_2_64)

\* hash % prime, for a hash below twice the prime
BigMod(x, p) == IF BigLess(x, p) THEN x ELSE Big(x.top - p.top, x.off - p.off)

\* The multiple of unit nearest to d, counted in units; a tie goes to the even
\* count, which is the even significand.
RoundHalfEven(d, unit) ==
    LET k == d \div unit
        r == d % unit
    IN IF 2 * r < unit THEN k
       ELSE IF 2 * r > unit THEN k + 1
       ELSE IF k % 2 = 0 THEN k ELSE k + 1

\* x as f64: the nearest value with a significand of 53 bits.  Below 2^53 that
\* is x; from 2^63 to 2^64 the f64 values are 2048 apart, from 2^64 on 4096.
AsF64(x) ==
    IF x.top = 0 THEN x
    ELSE IF x.off >= 0 THEN Big(1, 4096 * RoundHalfEven(x.off, 4096))
    ELSE Big(1, 0 - 2048 * RoundHalfEven(0 - x.off, 2048))

\* hash_string_to_f64: the quotient of two f64, kept as the pair.  The divisor
\* is a power of two, so that the division itself rounds nothing.
HashStringToF64(s) ==
    LET hash == hs_hasher[s]
    IN [num |-> AsF64(BigMod(hash, Prime)), den |-> AsF64(Prime)]

\* DefaultHasher::new() has fixed keys: the hash of a string is the same in
\* every call.
InitHash ==
    /\ IdleEngine
    /\ IdleBatch
    /\ IdleProviders
    /\ IdleRelation
    /\ IdleCheck
    /\ IdleBatchCall
    /\ hs_hasher \in [HashedStrings -> HashValues]
    /\ hs_log = <<>>

CallHashStringToF64(s) ==
    /\ Len(hs_log) < MaxHashCalls
    /\ hs_log' = Append(hs_log, [input |-> s, value |-> HashStringToF64(s)])
    /\ UNCHANGED <<hs_hasher, engine_vars, rb_vars, px_vars, ra_vars, ck_vars, bc_vars>>

NextHash == \E s \in HashedStrings : CallHashStringToF64(s)

SpecHash == InitHash /\ [][NextHash]_vars

\* -------------------------------------- claims on hash_string_to_f64
\* C23: every value v that hash_string_to_f64 returns has 0 <= v < 1, and two
\* calls with the same string return the same value.
C23_HashInUnitInterval ==
    /\ \A i \in 1..Len(hs_log) :
          /\ ~BigLess(hs_log[i].value.num, Big(0, 0))
          /\ BigLess(hs_log[i].value.num, hs_log[i].value.den)
    /\ \A i, j \in 1..Len(hs_log) :
          hs_log[i].input = hs_log[j].input => hs_log[i].value = hs_log[j].value


\* ==================================================== Requirement::check
\*   src/requirements/src/requirement.rs, from the request of line 99 on: the
\* strategy of every requirement whose type_id is not "evmbalance".
MaxItems == 2

\* serde_json::Value.  Strings are sequences of characters.
JNull == [kind |-> "null", bool |-> FALSE, number |-> 0, string |-> <<>>, items |-> <<>>]
JObject == [JNull EXCEPT !.kind = "object"]
JBool(b) == [JNull EXCEPT !.kind = "bool", !.bool = b]
JNumber(n) == [JNull EXCEPT !.kind = "number", !.number = n]
JString(chars) == [JNull EXCEPT !.kind = "string", !.string = chars]
JArray(items) == [JNull EXCEPT !.kind = "array", !.items = items]

JStrings == {<<"a">>, <<"1">>}
JItems == {JString(chars) : chars \in JStrings} \cup {JNumber(1)}
JValues ==
    {JNull, JObject} \cup {JBool(b) : b \in BOOLEAN} \cup {JNumber(n) : n \in Scalars}
      \cup {JString(chars) : chars \in JStrings}
      \cup {JArray(items) : items \in SeqsUpTo(JItems, MaxItems)}

\* format!("{}", n) of a number
RECURSIVE Decimal(_)
Decimal(n) ==
    IF n < 10 THEN <<HexDigits[n + 1]>>
    ELSE Append(Decimal(n \div 10), HexDigits[(n % 10) + 1])

\* Value::to_string of an array item: a string comes out between quotes, a
\* number as its digits.
ValueToString(item) ==
    IF item.kind = "string" THEN <<"\"">> \o item.string \o <<"\"">>
    ELSE Decimal(item.number)

\* The texts that a check of this value passes to hash_string_to_f64.
HashedTexts(parsed) ==
    CASE parsed.kind = "string" -> {parsed.string}
      [] parsed.kind = "array" -> {ValueToString(parsed.items[k]) : k \in 1..Len(parsed.items)}
      [] OTHER -> {}

\* hash_string_to_f64 returns values of the unit interval: of the scalars, 0
\* and 1.
HashScalars == {0, 1}

\* As ArrayAccess, but false for every relation other than EqualTo.
ArrayAccessEqualOnly(relation, array, hash) ==
    IF relation.kind = "EqualTo"
    THEN \E k \in 1..Len(array) : hash[ValueToString(array[k])] = relation.a
    ELSE FALSE

\* The arm Value::Array(array) of the match
ArrayAccess(relation, array, hash) ==
    IF relation.kind = "EqualTo"
    THEN \E k \in 1..Len(array) : hash[ValueToString(array[k])] = relation.a
    ELSE TRUE

\* Scalar::from(bool)
ScalarFromBool(b) == IF b THEN 1 ELSE 0

\* let access = match parsed { .. }
Access(relation, parsed, hash) ==
    CASE parsed.kind = "array" -> ArrayAccess(relation, parsed.items, hash)
      [] parsed.kind = "bool" -> RelationHolds(relation, ScalarFromBool(parsed.bool))
      [] parsed.kind = "number" -> RelationHolds(relation, parsed.number)
      [] parsed.kind = "string" -> RelationHolds(relation, hash[parsed.string])
      [] OTHER -> FALSE

\* Requirement::check from line 99 on: builder.send().await?.json().await?,
\* parse_result, and the match.
Check(relation, reply, hash) ==
    IF ~reply.ok THEN [state |-> "Err", value |-> FALSE, error |-> "Reqwest"]
    ELSE [state |-> "Ok", value |-> Access(relation, reply.parsed, hash), error |-> "none"]

\* ck_reply.parsed is what parse_result extracts from the response at the path.
InitCheck ==
    /\ IdleEngine
    /\ IdleBatch
    /\ IdleProviders
    /\ IdleRelation
    /\ IdleHash
    /\ IdleBatchCall
    /\ ck_relation \in Relations
    /\ ck_reply \in [ok : {TRUE}, parsed : JValues] \cup [ok : {FALSE}, parsed : {JNull}]
    /\ ck_hash \in [HashedTexts(ck_reply.parsed) -> HashScalars]
    /\ ck_result = [state |-> "pending", value |-> FALSE, error |-> "none"]

CallCheck ==
    /\ ck_result.state = "pending"
    /\ ck_result' = Check(ck_relation, ck_reply, ck_hash)
    /\ UNCHANGED <<ck_relation, ck_reply, ck_hash, engine_vars, rb_vars, px_vars,
                   ra_vars, hs_vars, bc_vars>>

NextCheck == CallCheck

SpecCheck == InitCheck /\ [][NextCheck]_vars

\* -------------------------------------- claims on Requirement::check
\* The numeric value of a bool, number or string.
NumericValue(parsed) ==
    CASE parsed.kind = "bool" -> IF parsed.bool THEN 1 ELSE 0
      [] parsed.kind = "number" -> parsed.number
      [] parsed.kind = "string" -> ck_hash[parsed.string]

\* C21: the value at the path decides the access: an array passes EqualTo iff
\* the hash of one of its elements is the target and passes every other
\* relation; a bool, a number or a string passes iff relation.assert holds of
\* its numeric value, the hash for a string; null and objects give false.
C21_ValueDecidesAccess ==
    (ck_result.state = "Ok")
        => LET parsed == ck_reply.parsed
           IN /\ parsed.kind = "array" /\ ck_relation.kind = "EqualTo"
                    => (ck_result.value
                          <=> \E item \in {parsed.items[k] : k \in 1..Len(parsed.items)} :
                                 ck_hash[ValueToString(item)] = ck_relation.a)
              /\ parsed.kind = "array" /\ ck_relation.kind # "EqualTo" => ck_result.value
              /\ parsed.kind \in {"bool", "number", "string"}
                    => (ck_result.value
                          <=> RelationHolds(ck_relation, NumericValue(parsed)))
              /\ parsed.kind \in {"null", "object"} => ~ck_result.value

\* check has returned for an array of two elements against a relation other
\* than EqualTo that no element's hash satisfies.
C21_Witness ==
    /\ ck_result.state = "Ok"
    /\ ck_reply.parsed.kind = "array"
    /\ Len(ck_reply.parsed.items) = 2
    /\ ck_relation.kind = "GreaterThan"
    /\ \A k \in 1..2 : ck_hash[ValueToString(ck_reply.parsed.items[k])] <= ck_relation.a


\* ========================================= get_erc1155_balance_batch
\*   src/providers/src/evm/jsonrpc/contract/mod.rs, lines 232-256: the calldata
\* of balanceOfBatch; GetErc1155BalanceBatch decodes the reply (lines 258-273).
FUNC_ERC1155_BATCH == <<"4", "e", "1", "2", "7", "3", "f", "4">>

\* format!("{user_address:x}") of an H160: its 40 hex digits.
UserAddresses == Targets \cup {Repeat("0", 39) \o <<"1">>}
BatchTokenIds == {0, 1, 255, 4096}

\* vec![text; n].join("") and the concatenation of a list of texts
RECURSIVE Concat(_)
Concat(texts) == IF texts = <<>> THEN <<>> ELSE Head(texts) \o Concat(Tail(texts))

\* As BatchOffset, but one word short.
BatchOffsetShort(count) == (count + 2) * 32

\* let offset = (count + 3) * 32;
BatchOffset(count) == (count + 3) * 32

\* let call_data = format!("{FUNC_ERC1155_BATCH}{len:064x}{offset:064x}..")
Erc1155BatchCallData(token_id, user_addresses) ==
    LET addresses == Concat([k \in 1..Len(user_addresses) |-> ZEROES \o user_addresses[k]])
        len == 64
        count == Len(user_addresses)
        offset == BatchOffset(count)
        ids == Concat([k \in 1..count |-> Fmt064x(token_id)])
    IN FUNC_ERC1155_BATCH \o Fmt064x(len) \o Fmt064x(offset) \o Fmt064x(count)
         \o addresses \o Fmt064x(count) \o ids

InitBatchCall ==
    /\ IdleEngine
    /\ IdleBatch
    /\ IdleProviders
    /\ IdleRelation
    /\ IdleHash
    /\ IdleCheck
    /\ bc_query \in [token_address : Targets, token_id : BatchTokenIds,
                     user_addresses : SeqsUpTo(UserAddresses, MaxHolders)]
    /\ bc_call_data = <<>>
    /\ bc_result = [state |-> "pending", value |-> <<>>, error |-> "none", requests |-> 0]

\* What call_contract may return for a call of balanceOfBatch on these
\* holders: the ABI encoding of one balance each, cut short, or undecodable.
BatchCallReplies(user_addresses) ==
    UNION {BatchReplies(<<Word(U256Of(32)), Word(U256Of(Len(user_addresses)))>>
                          \o [k \in 1..Len(user_addresses) |-> Word(balances[k])])
             : balances \in [1..Len(user_addresses) -> {U256Of(0), U256Of(1), U256Big}]}

\* get_erc1155_balance_batch: the Call it sends to bc_query.token_address and
\* the balances it decodes from the reply.
CallGetErc1155BalanceBatch ==
    /\ bc_result.state = "pending"
    /\ bc_call_data' = Erc1155BatchCallData(bc_query.token_id, bc_query.user_addresses)
    /\ \E reply \in BatchCallReplies(bc_query.user_addresses) :
          bc_result' = GetErc1155BalanceBatch(reply)
    /\ UNCHANGED <<bc_query, engine_vars, rb_vars, px_vars, ra_vars, hs_vars, ck_vars>>

NextBatchCall == CallGetErc1155BalanceBatch

SpecBatchCall == InitBatchCall /\ [][NextBatchCall]_vars

\* ------------------------- claims on get_erc1155_balance_batch
\* The 32-byte word number w (from 0) of the arguments of the batch calldata.
BatchWordAt(w) == SubSeq(bc_call_data, 8 + 64 * w + 1, 8 + 64 * (w + 1))

\* C24: for n >= 0 holders and one token id, the ERC-1155 batch calldata is
\* the selector 4e1273f4, the word 0x40, the word (n + 3) * 32, the count n,
\* n address words in holder order, the count n again, and n copies of the id
\* word; the two head words are the byte offsets, from the start of the
\* arguments, of the addresses array and of the ids array.
C24_BatchCalldataLayout ==
    (bc_result.state # "pending")
        => LET holders == bc_query.user_addresses
               n == Len(holders)
               addresses_at == FromHex(BatchWordAt(0)) \div 32
               ids_at == FromHex(BatchWordAt(1)) \div 32
           IN /\ Len(bc_call_data) = 8 + 64 * (2 * n + 4)
              /\ SubSeq(bc_call_data, 1, 8) = <<"4", "e", "1", "2", "7", "3", "f", "4">>
              /\ FromHex(BatchWordAt(0)) = 64
              /\ FromHex(BatchWordAt(1)) = (n + 3) * 32
              /\ FromHex(BatchWordAt(2)) = n
              /\ \A k \in 1..n : BatchWordAt(2 + k) = Repeat("0", 24) \o holders[k]
              /\ FromHex(BatchWordAt(3 + n)) = n
              /\ \A k \in 1..n : /\ Len(BatchWordAt(3 + n + k)) = 64
                                 /\ FromHex(BatchWordAt(3 + n + k)) = bc_query.token_id
              /\ addresses_at = 2
              /\ ids_at = addresses_at + 1 + n

\* The calldata is built for two different holders and a non-zero token id.
C24_Witness ==
    /\ bc_result.state = "Ok"
    /\ Len(bc_query.user_addresses) = 2
    /\ bc_query.user_addresses[1] # bc_query.user_addresses[2]
    /\ bc_query.token_id = 4096


\* ------------------------------- claims on the padding of aggregate
\* C26: aggregate produces calldata only for calls whose calldata is at most
\* 64 bytes: the padding length is (64 - data_len) * 2 in unsigned arithmetic,
\* so for a call with calldata longer than 64 bytes the subtraction underflows
\* and aggregate aborts instead of padding to the next 64-byte boundary.
C26_LongCalldataAborts ==
    (ag_result.state # "pending")
        => LET long == {k \in 1..Len(ag_calls) : Len(ag_calls[k].call_data) > 2 * 64}
           IN /\ ag_result.state = "panic" <=> long # {}
              /\ ag_result.state = "Ok" <=> long = {}
              /\ long # {} => ag_result.data = <<>>

\* aggregate aborted on a call of 4 bytes followed by a call of 68 bytes.
C26_Witness ==
    /\ ag_result.state = "panic"
    /\ Len(ag_calls) = 2
    /\ Len(ag_calls[1].call_data) = 8
    /\ Len(ag_calls[2].call_data) = 136

====
